---- MODULE Spec2Model ----
(***************************************************************************)
(* Session & attendance lifecycle of the CleO classroom-attendance tracker. *)
(*                                                                         *)
(* The document store is modelled as functions from document ids to        *)
(* documents.  Every exported operation of the client library              *)
(* (data-visualizer.js, part_000, part_002) and of the server data manager *)
(* (part_004, listener.js) is a small state machine: one step per awaited  *)
(* store read or write.  A call is a frame (operation, program counter,    *)
(* arguments, the snapshots it has read so far).  The step operators are   *)
(* pure functions from (world, frame) to (world, frame), so that the same  *)
(* definitions serve the sequential specifications (a call runs to         *)
(* completion in one action) and the interleaved ones (one awaited read or *)
(* write per action).                                                      *)
(*                                                                         *)
(* Units: coordinates are in millidegrees, angles in tenths of a           *)
(* microradian, distances and radii in millimetres, timestamps are ticks   *)
(* of the server clock (0 is null).                                        *)
(***************************************************************************)
EXTENDS FiniteSets, Integers, Naturals, Sequences, TLC

(***************************************************************************)
(* Bounds of the model.                                                    *)
(***************************************************************************)
MaxSessions == 2
MaxTime == 4
MaxCalls == 2
MaxOffset == 1

(***************************************************************************)
(* Universe: people, classes, places.                                      *)
(***************************************************************************)
Teachers == {"t1", "t2"}
Students == {"s1", "s2"}
Classes == {"c1"}
SessionIds == 1..MaxSessions
\* session references a caller may pass: 0 never names a stored session
SessionRefs == 0..MaxSessions
Procs == 1..MaxCalls

Null == 0
NoDoc == [exists |-> FALSE]

\* classes/{classId}.teacherId of the classes that exist
classTeacher == [c \in Classes |-> "t1"]

Point(lat, lon) == [latitude |-> lat, longitude |-> lon]
Center == Point(0, 0)
OneStep == Point(1, 0)
TwoSteps == Point(1, 2)
StudentLocations == {Center, OneStep, TwoSteps}

(***************************************************************************)
(* GeoFence: haversine distance in fixed point.                            *)
(***************************************************************************)
\* R = 6371e3 m, kept in kilometres so that products stay in 32 bits
EarthRadiusKm == 6371

Abs(x) == IF x < 0 THEN -x ELSE x

\* value * Math.PI / 180 for a value in millidegrees, in 0.1 microradians,
\* rounded towards zero (the product is odd in value)
toRad(value) ==
  IF value >= 0 THEN (value * 17453) \div 100 ELSE -((Abs(value) * 17453) \div 100)

RECURSIVE SqrtSearch(_, _, _)
SqrtSearch(n, lo, hi) ==
  IF lo >= hi THEN lo
  ELSE LET mid == (lo + hi + 1) \div 2
       IN IF mid * mid <= n THEN SqrtSearch(n, mid, hi)
          ELSE SqrtSearch(n, lo, mid - 1)

\* Math.sqrt, rounded down
Sqrt(n) == SqrtSearch(n, 0, 2000)

\* Math.cos in thousandths, second-order series in milliradians (an even
\* function: 1000 near the equator, 452 at 60 degrees)
Cos(x) == 1000 - ((Abs(x) \div 10000) * (Abs(x) \div 10000)) \div 2000

\* a, c and R * c of calculateDistance, in millimetres.  For the differences
\* of the model sin(x/2) = x/2 and 2*atan2(sqrt(a), sqrt(1-a)) = 2*sqrt(a) to
\* the precision kept, so 4a is accumulated and c = sqrt(4a).
Haversine(phi1, phi2, dphi, dlam) ==
  LET a4 == dphi * dphi + (((Cos(phi1) * Cos(phi2)) \div 1000) * (dlam * dlam)) \div 1000
      c == Sqrt(a4)
  IN (EarthRadiusKm * c) \div 10

\* a distance that takes point2's longitude for the difference of longitudes
calculateDistanceFromMeridian(point1, point2) ==
  Haversine(toRad(point1.latitude), toRad(point2.latitude),
            toRad(point2.latitude - point1.latitude),
            toRad(point2.longitude))

\* calculateDistance(point1, point2) of the client and of the server
calculateDistance(point1, point2) ==
  Haversine(toRad(point1.latitude), toRad(point2.latitude),
            toRad(point2.latitude - point1.latitude),
            toRad(point2.longitude - point1.longitude))

\* the radius a teacher enters so that OneStep lies exactly on the fence
BoundaryRadius == calculateDistance(Center, OneStep)
\* radius: 50 of the sample sessions, in millimetres
SampleRadius == 50000
RadiusInputs == {0, BoundaryRadius}

(***************************************************************************)
(* State.                                                                  *)
(***************************************************************************)
VARIABLES
  classes,               \* classes/{classId} exists
  sessions,              \* sessions/{sessionId}
  attendance,            \* sessions/{sessionId}/attendance/{studentId}
  verificationRequests,  \* sessions/{sessionId}/verificationRequests/{studentId}
  classStudents,         \* classes/{classId}/students/{studentId} exists
  userClasses,           \* userClasses/{studentId}/classes/{classId} exists
  now,                   \* the server clock: the next timestamp it hands out
  calls,                 \* per caller: the call in flight or the last finished one
  measurement            \* a pair of points and the distances computed for it

vars ==
  <<classes, sessions, attendance, verificationRequests, classStudents, userClasses, now, calls,
    measurement>>

\* the store as one value, the argument of the step operators
World ==
  [classes |-> classes, sessions |-> sessions, attendance |-> attendance,
   verificationRequests |-> verificationRequests,
   classStudents |-> classStudents, userClasses |-> userClasses, now |-> now]

NoPre == [exists |-> FALSE]

\* what a finished call remembers of the store it started from
PreOf(w) ==
  [exists |-> TRUE, sessions |-> w.sessions, attendance |-> w.attendance,
   verificationRequests |-> w.verificationRequests]

\* the keys of the free-form 'additional' bag of an attendance record; a key
\* that is not in a bag has the value Null
AdditionalKeys == {"note", "device"}
NoAdditional == [k \in AdditionalKeys |-> Null]

NoFrame ==
  [op |-> "idle", pc |-> "idle", sid |-> 0, uid |-> "none", tid |-> "none",
   cid |-> "none", loc |-> Center, hasLoc |-> FALSE, radius |-> 0, status |-> "none",
   additionalData |-> NoAdditional, students |-> {},
   locType |-> "number", radiusType |-> "number",
   sess |-> NoDoc, att |-> NoDoc, req |-> NoDoc,
   within |-> FALSE, distance |-> Null, fix |-> {},
   res |-> "none", msg |-> "none", pre |-> NoPre]

Frame(op) == [NoFrame EXCEPT !.op = op, !.pc = "start"]

Idle(f) == f.pc \in {"idle", "done"}

Out(w, f) == [w |-> w, f |-> f]
Ok(w, f, msg) == Out(w, [f EXCEPT !.pc = "done", !.res = "ok", !.msg = msg])
Fail(w, f, msg) == Out(w, [f EXCEPT !.pc = "done", !.res = "error", !.msg = msg])
Goto(w, f, pc) == Out(w, [f EXCEPT !.pc = pc])
\* a write that would need a timestamp or a document id beyond the bounds
Blocked(w, f) == Out(w, [f EXCEPT !.pc = "blocked"])

\* db.collection('sessions').doc(sessionId).get()
GetSession(w, sid) == IF sid \in SessionIds THEN w.sessions[sid] ELSE NoDoc

\* db.collection('sessions').where('classId','==',classId).where('status','==','active')
ActiveSessionsOf(w, cid) ==
  {s \in SessionIds : w.sessions[s].exists /\ w.sessions[s].classId = cid
                      /\ w.sessions[s].status = "active"}

\* db.collection('sessions').doc(): an id no stored session has
FreeIds(w) == {s \in SessionIds : ~w.sessions[s].exists}
NewId(w) == CHOOSE s \in FreeIds(w) : \A t \in FreeIds(w) : s <= t

\* a new session document that already carries an end time
NewSessionDocStamped(cid, tid, loc, radius, t) ==
  [exists |-> TRUE, classId |-> cid, teacherId |-> tid, startTime |-> t,
   endTime |-> t, status |-> "active", location |-> loc, radius |-> radius,
   lastUpdated |-> Null]

\* the document written by createAttendanceSession and by createSession
NewSessionDoc(cid, tid, loc, radius, t) ==
  [exists |-> TRUE, classId |-> cid, teacherId |-> tid, startTime |-> t,
   endTime |-> Null, status |-> "active", location |-> loc, radius |-> radius,
   lastUpdated |-> Null]

(***************************************************************************)
(* Geofence arguments as JavaScript sees them.  A call carries the type of *)
(* location.latitude/longitude (locType: "undefined" when the location is  *)
(* missing, "string" when the coordinates are not numbers) and the type of *)
(* radius (radiusType), next to their values.                              *)
(***************************************************************************)
\* !x for a value of the given type
Falsy(type, value) == type = "undefined" \/ (type = "number" /\ value = 0)

\* !location || typeof location.latitude !== 'number' || typeof location.longitude !== 'number'
LocationRejected(f) == f.locType # "number"

\* !sessionData.radius || typeof sessionData.radius !== 'number'
CreateRadiusRejected(f) == Falsy(f.radiusType, f.radius) \/ f.radiusType # "number"

\* typeof radius !== 'number' || radius <= 0
UpdateRadiusRejected(f) == f.radiusType # "number" \/ f.radius <= 0

(***************************************************************************)
(* SessionManager, client: createAttendanceSession.                        *)
(***************************************************************************)
\* the sessions of the snapshot that have no endTime ("truly active")
TrulyActive(w, snapshot) == {s \in snapshot : w.sessions[s].endTime = Null}

\* hasActiveSession of createAttendanceSession
hasActiveSession(w, snapshot) == TrulyActive(w, snapshot) # {}

CreateAttendanceSessionStep(w, f) ==
  CASE f.pc = "start" ->
         IF LocationRejected(f) THEN Fail(w, f, "Valid location data is required")
         ELSE IF CreateRadiusRejected(f) THEN Fail(w, f, "Valid radius is required")
         ELSE IF f.cid \notin w.classes THEN Fail(w, f, "Class not found")
         ELSE IF f.tid # classTeacher[f.cid]
           THEN Fail(w, f, "You do not have permission to create sessions for this class")
         ELSE Goto(w, f, "query")
    [] f.pc = "query" ->
         LET snapshot == ActiveSessionsOf(w, f.cid)
         IN IF hasActiveSession(w, snapshot)
              THEN Fail(w, f, "There is already an active session for this class")
            ELSE IF snapshot # {}
              THEN Out(w, [f EXCEPT !.pc = "fix", !.fix = snapshot])
            ELSE Goto(w, f, "set")
    [] f.pc = "fix" ->
         IF w.now > MaxTime THEN Blocked(w, f)
         ELSE Out([w EXCEPT !.sessions =
                      [s \in SessionIds |->
                         IF s \in f.fix
                           THEN [w.sessions[s] EXCEPT !.status = "ended", !.lastUpdated = w.now]
                           ELSE w.sessions[s]],
                    !.now = @ + 1],
                  [f EXCEPT !.pc = "set"])
    [] f.pc = "set" ->
         IF w.now > MaxTime \/ FreeIds(w) = {} THEN Blocked(w, f)
         ELSE LET id == NewId(w)
              IN Ok([w EXCEPT !.sessions[id] =
                        NewSessionDoc(f.cid, f.tid, f.loc, f.radius, w.now),
                      !.now = @ + 1],
                    [f EXCEPT !.sid = id], "Session created")

(***************************************************************************)
(* Server: POST /sessions and createSession.                               *)
(***************************************************************************)
\* radius strings are not drawn for the server: the stored radius is a number
PostSessionStep(w, f) ==
  CASE f.pc = "start" ->
         IF Falsy(f.locType, 1) \/ Falsy(f.radiusType, f.radius)
           THEN Fail(w, f, "Missing required fields")
         ELSE IF f.cid \notin w.classes THEN Fail(w, f, "Class not found")
         ELSE IF classTeacher[f.cid] # f.tid
           THEN Fail(w, f, "You are not the teacher of this class")
         \* new GeoPoint(latitude, longitude) throws on coordinates that are not numbers
         ELSE IF f.locType # "number" THEN Fail(w, f, "Internal server error")
         ELSE Goto(w, f, "set")
    [] f.pc = "set" ->
         IF w.now > MaxTime \/ FreeIds(w) = {} THEN Blocked(w, f)
         ELSE LET id == NewId(w)
              IN Ok([w EXCEPT !.sessions[id] =
                        NewSessionDoc(f.cid, f.tid, f.loc, f.radius, w.now),
                      !.now = @ + 1],
                    [f EXCEPT !.sid = id], "Session created")

(***************************************************************************)
(* Session state machine, client: startAttendanceSession,                  *)
(* endAttendanceSession.                                                   *)
(***************************************************************************)
\* a lifecycle call that any teacher may make
AnyTeacherIsOwner(sessionTeacherId, teacherId) == TRUE

\* the owner test of the lifecycle calls: sessionData.teacherId !== teacherId
IsSessionOwner(sessionTeacherId, teacherId) == sessionTeacherId = teacherId

\* startAttendanceSession without its 'ended' test
StartDecisionRestartsEnded(status) == IF status = "active" THEN "noop" ELSE "write"

\* what startAttendanceSession does with the status it read
StartDecision(status) ==
  IF status = "active" THEN "noop"
  ELSE IF status = "ended" THEN "reject"
  ELSE "write"

StartAttendanceSessionStep(w, f) ==
  CASE f.pc = "start" ->
         LET s == GetSession(w, f.sid)
         IN IF ~s.exists THEN Fail(w, f, "Session not found")
            ELSE IF ~IsSessionOwner(s.teacherId, f.tid)
              THEN Fail(w, f, "You do not have permission to start this session")
            ELSE IF StartDecision(s.status) = "noop"
              THEN Ok(w, [f EXCEPT !.sess = s], "Session is already active")
            ELSE IF StartDecision(s.status) = "reject"
              THEN Fail(w, [f EXCEPT !.sess = s], "Cannot restart an ended session")
            ELSE Out(w, [f EXCEPT !.pc = "update", !.sess = s])
    [] f.pc = "update" ->
         IF w.now > MaxTime THEN Blocked(w, f)
         ELSE Ok([w EXCEPT !.sessions[f.sid] =
                     [@ EXCEPT !.status = "active", !.startTime = w.now, !.endTime = Null],
                   !.now = @ + 1],
                 f, "Session started successfully")

\* an end call that also checks out the session's attendance records
SessionUpdateCascades(w, sid, doc) ==
  [w EXCEPT !.sessions[sid] = doc,
            !.attendance = [k \in DOMAIN w.attendance |->
                              IF k[1] = sid /\ w.attendance[k].exists
                                THEN [w.attendance[k] EXCEPT !.checkOutTime = w.now]
                                ELSE w.attendance[k]]]

\* db.collection('sessions').doc(sessionId).update(...): the one document written
SessionUpdate(w, sid, doc) == [w EXCEPT !.sessions[sid] = doc]

\* endAttendanceSession without its 'ended' test
EndDecisionAlwaysWrites(status) == "write"

\* what endAttendanceSession does with the status it read
EndDecision(status) == IF status = "ended" THEN "noop" ELSE "write"

EndAttendanceSessionStep(w, f) ==
  CASE f.pc = "start" ->
         LET s == GetSession(w, f.sid)
         IN IF ~s.exists THEN Fail(w, f, "Session not found")
            ELSE IF ~IsSessionOwner(s.teacherId, f.tid)
              THEN Fail(w, f, "You do not have permission to end this session")
            ELSE IF EndDecision(s.status) = "noop"
              THEN Ok(w, [f EXCEPT !.sess = s], "Session is already ended")
            ELSE Out(w, [f EXCEPT !.pc = "update", !.sess = s])
    [] f.pc = "update" ->
         IF w.now > MaxTime THEN Blocked(w, f)
         ELSE Ok([SessionUpdate(w, f.sid,
                                [w.sessions[f.sid] EXCEPT !.status = "ended", !.endTime = w.now])
                    EXCEPT !.now = @ + 1],
                 f, "Session ended successfully")

(***************************************************************************)
(* Client: updateSessionLocation.                                          *)
(***************************************************************************)
\* a geofence that stays open for change until the session has ended
LocationFrozenOnceEnded(status) == status = "ended"

\* "Cannot update location for an inactive session"
LocationFrozen(status) == status # "active"

UpdateSessionLocationStep(w, f) ==
  CASE f.pc = "start" ->
         LET s == GetSession(w, f.sid)
         IN IF LocationRejected(f) THEN Fail(w, f, "Valid location data is required")
            ELSE IF UpdateRadiusRejected(f) THEN Fail(w, f, "Valid radius is required")
            ELSE IF ~s.exists THEN Fail(w, f, "Session not found")
            ELSE IF ~IsSessionOwner(s.teacherId, f.tid)
              THEN Fail(w, f, "You do not have permission to update this session")
            ELSE IF LocationFrozen(s.status)
              THEN Fail(w, [f EXCEPT !.sess = s], "Cannot update location for an inactive session")
            ELSE Out(w, [f EXCEPT !.pc = "update", !.sess = s])
    [] f.pc = "update" ->
         IF w.now > MaxTime THEN Blocked(w, f)
         ELSE Ok([w EXCEPT !.sessions[f.sid] =
                     [@ EXCEPT !.location = f.loc, !.radius = f.radius, !.lastUpdated = w.now],
                   !.now = @ + 1],
                 f, "Session location updated successfully")

(***************************************************************************)
(* Server: PUT /sessions/{id} and updateSessionStatus.                     *)
(***************************************************************************)
\* the catch block of the sessions function: the HTTP status of a thrown error
ErrorResponseStatus(message) ==
  IF message = "Session not found" THEN 404
  ELSE IF message = "Invalid status transition" THEN 400
  ELSE 500

\* an updateSessionStatus that closes a session whatever its current status
AnyTransitionToClosed(currentStatus, status) == status = "ended" \/ status = "cancelled"

\* the transitions updateSessionStatus accepts
StatusTransitionAllowed(currentStatus, status) ==
  (status = "ended" \/ status = "cancelled") /\ currentStatus = "active"

PutSessionStep(w, f) ==
  CASE f.pc = "start" ->
         LET s == GetSession(w, f.sid)
         IN IF ~s.exists THEN Fail(w, f, "Session not found")
            ELSE IF s.teacherId # f.tid
              THEN Fail(w, f, "Only the session teacher can update")
            ELSE IF f.status = "none" THEN Fail(w, f, "No updates specified")
            ELSE Goto(w, f, "get")
    [] f.pc = "get" ->
         LET s == GetSession(w, f.sid)
         IN IF StatusTransitionAllowed(s.status, f.status)
              THEN Out(w, [f EXCEPT !.pc = "update", !.sess = s])
              ELSE Fail(w, [f EXCEPT !.sess = s], "Invalid status transition")
    [] f.pc = "update" ->
         IF w.now > MaxTime THEN Blocked(w, f)
         ELSE Ok([w EXCEPT !.sessions[f.sid] =
                     [@ EXCEPT !.status = f.status, !.endTime = w.now],
                   !.now = @ + 1],
                 f, "Session updated")

(***************************************************************************)
(* AttendanceCoordinator.                                                  *)
(***************************************************************************)
GetAttendance(w, sid, uid) == w.attendance[sid, uid]

\* classes/{classId}/students/{studentId}: the pointer read by the server
\* check-in and by manuallyMarkAttendance
ClassSideEnrolled(w, cid, uid) == <<cid, uid>> \in w.classStudents

\* userClasses/{studentId}/classes/{classId}: the pointer read by checkInToSession
UserSideEnrolled(w, cid, uid) == <<cid, uid>> \in w.userClasses

\* the fence test with the boundary left out
isStrictlyWithinRadius(distance, radius) == distance < radius

\* isWithinRadius of validateLocationForSession, isLocationValid of checkInStudent
isWithinRadius(distance, radius) == distance <= radius

\* validateLocationForSession(sessionId, studentLocation): re-reads the session
validateLocationForSession(w, sid, studentLocation) ==
  LET s == GetSession(w, sid)
  IN IF ~s.exists THEN [success |-> FALSE, within |-> FALSE, distance |-> Null]
     ELSE IF s.status # "active" THEN [success |-> FALSE, within |-> FALSE, distance |-> Null]
     ELSE LET distance == calculateDistance(s.location, studentLocation)
          IN [success |-> TRUE, within |-> isWithinRadius(distance, s.radius),
              distance |-> distance]

\* a check-in that only turns away cancelled sessions
SessionCancelled(status) == status = "cancelled"

\* the check-ins' test of the status they read: "Session is not active"
SessionNotActive(status) == status # "active"

\* a check-in that leaves a student outside the fence pending
CheckInStatusPending(within) == IF within THEN "verified" ELSE "pending_verification"

\* status written by both check-ins
CheckInStatus(within) == IF within THEN "verified" ELSE "failed_location"

NewAttendanceDoc ==
  [exists |-> TRUE, classId |-> "none", status |-> "none", isGpsVerified |-> FALSE,
   checkInTime |-> Null, checkInLocation |-> Center, hasCheckInLocation |-> FALSE,
   checkOutTime |-> Null, distance |-> Null,
   manuallyUpdated |-> FALSE, manuallyUpdatedBy |-> "none",
   manuallyCreated |-> FALSE, manuallyCreatedBy |-> "none",
   verificationResponseTime |-> Null, lastUpdated |-> Null,
   additional |-> NoAdditional]

\* {...existingData.additional, ...additionalData}
MergedAdditionalData(existing, additionalData) ==
  [k \in AdditionalKeys |-> IF additionalData[k] # Null THEN additionalData[k] ELSE existing[k]]

\* "You have already checked in" of checkInToSession
AlreadyCheckedIn(att) == att.exists

CheckInToSessionStep(w, f) ==
  CASE f.pc = "start" ->
         LET s == GetSession(w, f.sid)
         IN IF ~s.exists THEN Fail(w, f, "Session not found")
            ELSE IF SessionNotActive(s.status)
              THEN Fail(w, [f EXCEPT !.sess = s], "Session is not active")
            ELSE Out(w, [f EXCEPT !.pc = "enroll", !.sess = s, !.cid = s.classId])
    [] f.pc = "enroll" ->
         IF ~UserSideEnrolled(w, f.cid, f.uid)
           THEN Fail(w, f, "You are not enrolled in this class")
           ELSE Goto(w, f, "att")
    [] f.pc = "att" ->
         LET a == GetAttendance(w, f.sid, f.uid)
         IN IF AlreadyCheckedIn(a)
              THEN Fail(w, [f EXCEPT !.att = a], "You have already checked in to this session")
              ELSE Out(w, [f EXCEPT !.pc = "validate", !.att = a])
    [] f.pc = "validate" ->
         LET v == validateLocationForSession(w, f.sid, f.loc)
         IN IF ~v.success THEN Fail(w, f, "Location validation failed")
            ELSE Out(w, [f EXCEPT !.pc = "set", !.within = v.within, !.distance = v.distance])
    [] f.pc = "set" ->
         IF w.now > MaxTime THEN Blocked(w, f)
         ELSE Ok([w EXCEPT !.attendance[f.sid, f.uid] =
                     [NewAttendanceDoc EXCEPT
                        !.classId = f.cid, !.checkInTime = w.now,
                        !.checkInLocation = f.loc, !.hasCheckInLocation = TRUE,
                        !.status = CheckInStatus(f.within), !.distance = f.distance,
                        !.isGpsVerified = f.within, !.lastUpdated = w.now,
                        !.additional = f.additionalData],
                   !.now = @ + 1],
                 f, "Check-in recorded")

\* "Already checked in" of the server's checkInStudent
ServerAlreadyCheckedIn(att) ==
  att.exists /\ (att.status = "checked_in" \/ att.status = "verified")

CheckInStudentStep(w, f) ==
  CASE f.pc = "start" ->
         LET s == GetSession(w, f.sid)
         IN IF ~s.exists THEN Fail(w, f, "Session not found")
            ELSE IF SessionNotActive(s.status)
              THEN Fail(w, [f EXCEPT !.sess = s], "Session is not active")
            ELSE Out(w, [f EXCEPT !.pc = "enroll", !.sess = s, !.cid = s.classId])
    [] f.pc = "enroll" ->
         IF ~ClassSideEnrolled(w, f.cid, f.uid)
           THEN Fail(w, f, "Student not enrolled in this class")
           ELSE Goto(w, f, "att")
    [] f.pc = "att" ->
         LET a == GetAttendance(w, f.sid, f.uid)
         IN IF ServerAlreadyCheckedIn(a)
              THEN Fail(w, [f EXCEPT !.att = a], "Already checked in")
              ELSE LET distance == calculateDistance(f.sess.location, f.loc)
                   IN Out(w, [f EXCEPT !.pc = "set", !.att = a,
                                       !.within = isWithinRadius(distance, f.sess.radius),
                                       !.distance = distance])
    [] f.pc = "set" ->
         IF w.now > MaxTime THEN Blocked(w, f)
         ELSE Ok([w EXCEPT !.attendance[f.sid, f.uid] =
                     [NewAttendanceDoc EXCEPT
                        !.classId = f.cid, !.checkInTime = w.now,
                        !.checkInLocation = f.loc, !.hasCheckInLocation = TRUE,
                        !.status = CheckInStatus(f.within),
                        !.isGpsVerified = f.within, !.lastUpdated = w.now],
                   !.now = @ + 1],
                 f, "Check-in recorded")

\* a check-out that marks every student as having left early
EveryCheckOutIsEarly(status) == TRUE

\* the guard under which checkOutFromSession rewrites the status
NotVerifiedYet(status) == status = "pending_verification" \/ status = "pending_checkin"

\* a check-out that does not look at checkOutTime
NeverCheckedOut(att) == FALSE

\* "already checked out" of checkOutFromSession
AlreadyCheckedOut(att) == att.checkOutTime # Null

\* a check-out that does not look at the session's status
CanAlwaysCheckOut(status) == FALSE

\* "Cannot check out from an inactive session"
CannotCheckOut(status) == status # "active"

CheckOutFromSessionStep(w, f) ==
  CASE f.pc = "start" ->
         LET s == GetSession(w, f.sid)
         IN IF ~s.exists THEN Fail(w, f, "Session not found")
            ELSE IF CannotCheckOut(s.status)
              THEN Fail(w, [f EXCEPT !.sess = s], "Cannot check out from an inactive session")
            ELSE Out(w, [f EXCEPT !.pc = "att", !.sess = s])
    [] f.pc = "att" ->
         LET a == GetAttendance(w, f.sid, f.uid)
         IN IF ~a.exists
              THEN Fail(w, f, "No attendance record found. You must check in before you can check out.")
            ELSE IF AlreadyCheckedOut(a)
              THEN Ok(w, [f EXCEPT !.att = a], "You have already checked out from this session")
            ELSE Out(w, [f EXCEPT !.pc = "update", !.att = a])
    [] f.pc = "update" ->
         IF ~GetAttendance(w, f.sid, f.uid).exists THEN Fail(w, f, "No document to update")
         ELSE IF w.now > MaxTime THEN Blocked(w, f)
         ELSE Ok([w EXCEPT !.attendance[f.sid, f.uid] =
                     [@ EXCEPT !.checkOutTime = w.now, !.lastUpdated = w.now,
                               !.additional =
                                 MergedAdditionalData(f.att.additional, f.additionalData),
                               !.status = IF NotVerifiedYet(f.att.status)
                                            THEN "checked_out_early_before_verification"
                                            ELSE @],
                   !.now = @ + 1],
                 f, "Checked out successfully")

validStatuses == {"verified", "failed_location", "checked_out_early_before_verification", "absent"}

\* marking 'absent' by writing the status instead of deleting the record
RecordMarkedAbsent(att) == [att EXCEPT !.status = "absent"]

\* what marking 'absent' leaves of an existing record: attendanceRef.delete()
RecordAfterAbsent(att) == NoDoc

\* updateData of manuallyMarkAttendance applied to the stored record
ManualUpdate(att, status, tid, t) ==
  [att EXCEPT !.status = status, !.lastUpdated = t,
              !.manuallyUpdated = TRUE, !.manuallyUpdatedBy = tid]

\* attendanceData of manuallyMarkAttendance
ManualCreate(cid, status, tid, t) ==
  [NewAttendanceDoc EXCEPT
     !.classId = cid, !.checkInTime = t, !.status = status,
     !.isGpsVerified = (status = "verified"),
     !.manuallyCreated = TRUE, !.manuallyCreatedBy = tid, !.lastUpdated = t]

\* an override that any teacher may make
AnyTeacherMayOverride(sessionTeacherId, teacherId) == TRUE

\* the owner test of manuallyMarkAttendance: sessionData.teacherId === teacherId
OwnerMayOverride(sessionTeacherId, teacherId) == sessionTeacherId = teacherId

ManuallyMarkAttendanceStep(w, f) ==
  CASE f.pc = "start" ->
         LET s == GetSession(w, f.sid)
         IN IF f.status \notin validStatuses THEN Fail(w, f, "Invalid status")
            ELSE IF ~s.exists THEN Fail(w, f, "Session not found")
            ELSE IF ~OwnerMayOverride(s.teacherId, f.tid)
              THEN Fail(w, [f EXCEPT !.sess = s],
                        "You do not have permission to update attendance for this session")
            ELSE Out(w, [f EXCEPT !.pc = "att", !.sess = s, !.cid = s.classId])
    [] f.pc = "att" ->
         Out(w, [f EXCEPT !.pc = "enroll", !.att = GetAttendance(w, f.sid, f.uid)])
    [] f.pc = "enroll" ->
         IF ~ClassSideEnrolled(w, f.cid, f.uid)
           THEN Fail(w, f, "Student is not enrolled in this class")
         ELSE IF f.status = "absent"
           THEN IF f.att.exists THEN Goto(w, f, "delete")
                ELSE Ok(w, f, "Student attendance successfully marked")
         ELSE IF f.att.exists THEN Goto(w, f, "update")
         ELSE Goto(w, f, "set")
    [] f.pc = "delete" ->
         Ok([w EXCEPT !.attendance[f.sid, f.uid] = RecordAfterAbsent(@)], f,
            "Student attendance successfully marked")
    [] f.pc = "update" ->
         IF ~GetAttendance(w, f.sid, f.uid).exists THEN Fail(w, f, "No document to update")
         ELSE IF w.now > MaxTime THEN Blocked(w, f)
         ELSE Ok([w EXCEPT !.attendance[f.sid, f.uid] =
                     [ManualUpdate(@, f.status, f.tid, w.now) EXCEPT
                        !.additional =
                          MergedAdditionalData(f.att.additional, f.additionalData)],
                   !.now = @ + 1],
                 f, "Student attendance successfully marked")
    [] f.pc = "set" ->
         IF w.now > MaxTime THEN Blocked(w, f)
         ELSE Ok([w EXCEPT !.attendance[f.sid, f.uid] =
                     [ManualCreate(f.cid, f.status, f.tid, w.now) EXCEPT
                        !.additional = f.additionalData],
                   !.now = @ + 1],
                 f, "Student attendance successfully marked")

\* the upgrade respondToVerificationRequest applies when the response carries
\* a location inside the fence
VerificationUpgrade(att, upgrade) ==
  IF upgrade THEN [att EXCEPT !.isGpsVerified = TRUE, !.status = "verified"] ELSE att

\* verificationRequestData.status !== 'pending'
RequestNotPending(status) == status # "pending"

\* a response that leaves the request open
RequestLeftPending(request, t) == [request EXCEPT !.responseTime = t]

\* verificationRequestRef.update({status: 'completed', responseTime: ...})
RequestCompleted(request, t) == [request EXCEPT !.status = "completed", !.responseTime = t]

RespondToVerificationRequestStep(w, f) ==
  CASE f.pc = "start" ->
         LET s == GetSession(w, f.sid)
         IN IF ~s.exists THEN Fail(w, f, "Session not found")
            ELSE IF s.status # "active" THEN Fail(w, [f EXCEPT !.sess = s], "Session is not active")
            ELSE Out(w, [f EXCEPT !.pc = "att", !.sess = s])
    [] f.pc = "att" ->
         LET a == GetAttendance(w, f.sid, f.uid)
         IN IF ~a.exists THEN Fail(w, f, "You have not checked in to this session")
            ELSE Out(w, [f EXCEPT !.pc = "req", !.att = a])
    [] f.pc = "req" ->
         LET r == w.verificationRequests[f.sid, f.uid]
         IN IF ~r.exists THEN Fail(w, f, "No verification request found")
            ELSE IF RequestNotPending(r.status)
              THEN Fail(w, [f EXCEPT !.req = r], "Verification request is not pending")
            ELSE Out(w, [f EXCEPT !.pc = IF f.hasLoc THEN "validate" ELSE "updreq", !.req = r])
    [] f.pc = "validate" ->
         LET v == validateLocationForSession(w, f.sid, f.loc)
         IN Out(w, [f EXCEPT !.pc = "updreq", !.within = v.success /\ v.within])
    [] f.pc = "updreq" ->
         IF w.now > MaxTime THEN Blocked(w, f)
         ELSE Out([w EXCEPT !.verificationRequests[f.sid, f.uid] = RequestCompleted(@, w.now),
                    !.now = @ + 1],
                  [f EXCEPT !.pc = "updatt"])
    [] f.pc = "updatt" ->
         IF ~GetAttendance(w, f.sid, f.uid).exists THEN Fail(w, f, "No document to update")
         ELSE IF w.now > MaxTime THEN Blocked(w, f)
         ELSE Ok([w EXCEPT !.attendance[f.sid, f.uid] =
                     VerificationUpgrade(
                       [@ EXCEPT !.verificationResponseTime = w.now, !.lastUpdated = w.now],
                       f.hasLoc /\ f.within),
                   !.now = @ + 1],
                 f, "Verification response submitted successfully")

\* requestStudentVerification(sessionId, studentId): the teacher-side call that
\* leaves a pending request for the student
RequestStudentVerificationStep(w, f) ==
  LET s == GetSession(w, f.sid)
  IN IF ~s.exists THEN Fail(w, f, "Session not found")
     ELSE IF ~GetAttendance(w, f.sid, f.uid).exists THEN Fail(w, f, "Student has not checked in")
     ELSE Ok([w EXCEPT !.verificationRequests[f.sid, f.uid] =
                 [exists |-> TRUE, status |-> "pending", responseTime |-> Null]],
             f, "Verification requested")

\* removeStudentFromClass(classId, studentId, teacherId): refused while the
\* class has a session with status 'active'; deletes both enrollment pointers
\* in one batch
RemoveStudentFromClassStep(w, f) ==
  CASE f.pc = "start" ->
         IF f.cid \notin w.classes THEN Fail(w, f, "Class not found")
         ELSE IF classTeacher[f.cid] # f.tid
           THEN Fail(w, f, "You do not have permission to remove students from this class")
         ELSE Goto(w, f, "query")
    [] f.pc = "query" ->
         IF ActiveSessionsOf(w, f.cid) # {}
           THEN Fail(w, f, "Cannot remove student while there are active sessions for this class")
           ELSE Goto(w, f, "enroll")
    [] f.pc = "enroll" ->
         IF ~ClassSideEnrolled(w, f.cid, f.uid)
           THEN Fail(w, f, "This student is not enrolled in the class")
           ELSE Goto(w, f, "delete")
    [] f.pc = "delete" ->
         Ok([w EXCEPT !.classStudents = @ \ {<<f.cid, f.uid>>},
                      !.userClasses = @ \ {<<f.cid, f.uid>>}],
            f, "Student removed from class successfully")

(***************************************************************************)
(* Enrollment: joinClassWithCode, leaveClass (client); addStudentToClass,  *)
(* deleteClass (server).  Each writes the class-side and the user-side     *)
(* pointer in one batch.                                                   *)
(***************************************************************************)
\* a leave that deletes the student's own pointer only
LeaveDeletesUserSide(w, cid, uid) ==
  [w EXCEPT !.userClasses = @ \ {<<cid, uid>>}]

\* batch.delete(studentClassRef); batch.delete(classStudentRef); batch.commit()
LeaveBatch(w, cid, uid) ==
  [w EXCEPT !.classStudents = @ \ {<<cid, uid>>},
            !.userClasses = @ \ {<<cid, uid>>}]

\* batch.set(classStudentRef, ...); batch.set(studentClassRef, ...); batch.commit()
JoinBatch(w, cid, uid) ==
  [w EXCEPT !.classStudents = @ \cup {<<cid, uid>>},
            !.userClasses = @ \cup {<<cid, uid>>}]

\* joinClassWithCode(studentId, joinCode): f.cid is the class that has the code
JoinClassWithCodeStep(w, f) ==
  CASE f.pc = "start" ->
         IF f.cid \notin w.classes THEN Fail(w, f, "Invalid join code")
         ELSE Goto(w, f, "enroll")
    [] f.pc = "enroll" ->
         IF UserSideEnrolled(w, f.cid, f.uid)
           THEN Fail(w, f, "You are already enrolled in this class")
           ELSE Goto(w, f, "teacher")
    [] f.pc = "teacher" -> Goto(w, f, "batch")
    [] f.pc = "batch" -> Ok(JoinBatch(w, f.cid, f.uid), f, "Successfully joined class")

\* addStudentToClass(classId, studentId, className, teacherName)
AddStudentToClassStep(w, f) == Ok(JoinBatch(w, f.cid, f.uid), f, "Student added")

\* leaveClass(studentId, classId)
LeaveClassStep(w, f) ==
  CASE f.pc = "start" ->
         IF ~UserSideEnrolled(w, f.cid, f.uid)
           THEN Fail(w, f, "You are not enrolled in this class")
           ELSE Goto(w, f, "query")
    [] f.pc = "query" ->
         IF ActiveSessionsOf(w, f.cid) # {}
           THEN Fail(w, f, "Cannot leave class with active sessions")
           ELSE Goto(w, f, "batch")
    [] f.pc = "batch" -> Ok(LeaveBatch(w, f.cid, f.uid), f, "Successfully left the class")

\* deleteClass(classId): the batch deletes both pointers of every student of
\* the snapshot it read, and the class document
DeleteClassStep(w, f) ==
  CASE f.pc = "start" ->
         Out(w, [f EXCEPT !.pc = "batch",
                          !.students = {u \in Students : ClassSideEnrolled(w, f.cid, u)}])
    [] f.pc = "batch" ->
         Ok([w EXCEPT !.classStudents = @ \ {<<f.cid, u>> : u \in f.students},
                      !.userClasses = @ \ {<<f.cid, u>> : u \in f.students},
                      !.classes = @ \ {f.cid}],
            f, "Class deleted")

\* the records list of getSessionAttendance(sessionId): one entry per student
\* with a class-side enrollment pointer
getSessionAttendance(w, sid) ==
  LET s == GetSession(w, sid)
      enrolledStudentIds == {u \in Students : ClassSideEnrolled(w, s.classId, u)}
  IN [u \in enrolledStudentIds |->
        LET attendanceRecord == GetAttendance(w, sid, u)
        IN IF attendanceRecord.exists
             THEN [attended |-> TRUE, status |-> attendanceRecord.status,
                   checkInTime |-> attendanceRecord.checkInTime,
                   checkOutTime |-> attendanceRecord.checkOutTime,
                   distance |-> attendanceRecord.distance,
                   isGpsVerified |-> attendanceRecord.isGpsVerified]
             ELSE [attended |-> FALSE, status |-> "absent"]]

(***************************************************************************)
(* Calls: one awaited step, or a whole call.                               *)
(***************************************************************************)
Step(w, f) ==
  CASE f.op = "createAttendanceSession" -> CreateAttendanceSessionStep(w, f)
    [] f.op = "postSession" -> PostSessionStep(w, f)
    [] f.op = "startAttendanceSession" -> StartAttendanceSessionStep(w, f)
    [] f.op = "endAttendanceSession" -> EndAttendanceSessionStep(w, f)
    [] f.op = "putSession" -> PutSessionStep(w, f)
    [] f.op = "checkInToSession" -> CheckInToSessionStep(w, f)
    [] f.op = "checkInStudent" -> CheckInStudentStep(w, f)
    [] f.op = "checkOutFromSession" -> CheckOutFromSessionStep(w, f)
    [] f.op = "manuallyMarkAttendance" -> ManuallyMarkAttendanceStep(w, f)
    [] f.op = "respondToVerificationRequest" -> RespondToVerificationRequestStep(w, f)
    [] f.op = "requestStudentVerification" -> RequestStudentVerificationStep(w, f)
    [] f.op = "removeStudentFromClass" -> RemoveStudentFromClassStep(w, f)
    [] f.op = "updateSessionLocation" -> UpdateSessionLocationStep(w, f)
    [] f.op = "joinClassWithCode" -> JoinClassWithCodeStep(w, f)
    [] f.op = "addStudentToClass" -> AddStudentToClassStep(w, f)
    [] f.op = "leaveClass" -> LeaveClassStep(w, f)
    [] f.op = "deleteClass" -> DeleteClassStep(w, f)

RECURSIVE Run(_, _)
Run(w, f) ==
  IF f.pc \in {"done", "blocked"} THEN Out(w, f)
  ELSE LET r == Step(w, f) IN Run(r.w, r.f)

Commit(w) ==
  /\ classes' = w.classes
  /\ sessions' = w.sessions
  /\ attendance' = w.attendance
  /\ verificationRequests' = w.verificationRequests
  /\ classStudents' = w.classStudents
  /\ userClasses' = w.userClasses
  /\ now' = w.now

\* a call made while no other call is in flight, run to completion
Call(f) ==
  /\ \A p \in Procs : Idle(calls[p])
  /\ LET r == Run(World, [f EXCEPT !.pre = PreOf(World)])
     IN /\ r.f.pc = "done"
        /\ Commit(r.w)
        /\ calls' = [calls EXCEPT ![1] = r.f]
        /\ UNCHANGED measurement

\* caller p starts a call: everything up to and including its first read
Invoke(p, f) ==
  /\ Idle(calls[p])
  /\ LET r == Step(World, f)
     IN /\ r.f.pc # "blocked"
        /\ Commit(r.w)
        /\ calls' = [calls EXCEPT ![p] = r.f]
        /\ UNCHANGED measurement

\* caller p's call in flight performs its next awaited read or write
Advance(p) ==
  /\ ~Idle(calls[p])
  /\ LET r == Step(World, calls[p])
     IN /\ r.f.pc # "blocked"
        /\ Commit(r.w)
        /\ calls' = [calls EXCEPT ![p] = r.f]
        /\ UNCHANGED measurement

\* no distance has been asked for
NoMeasurement ==
  [point1 |-> Center, point2 |-> Center, done |-> FALSE, there |-> 0, back |-> 0, self |-> 0]

Init ==
  /\ measurement = NoMeasurement
  /\ sessions = [s \in SessionIds |-> NoDoc]
  /\ attendance = [k \in SessionIds \X Students |-> NoDoc]
  /\ verificationRequests = [k \in SessionIds \X Students |-> NoDoc]
  /\ classes = Classes
  /\ classStudents = {<<"c1", "s1">>}
  /\ userClasses = {<<"c1", "s1">>}
  /\ now = 1
  /\ calls = [p \in Procs |-> NoFrame]

(***************************************************************************)
(* The operations as the callers see them.  Each takes the sets its        *)
(* arguments are drawn from.                                               *)
(***************************************************************************)
CreateFrame(op, tid, cid, radius) ==
  [Frame(op) EXCEPT !.tid = tid, !.cid = cid, !.loc = Center, !.hasLoc = TRUE,
                    !.radius = radius]

SessionFrame(op, sid, tid) == [Frame(op) EXCEPT !.sid = sid, !.tid = tid]

StudentFrame(op, sid, uid) == [Frame(op) EXCEPT !.sid = sid, !.uid = uid]

LocatedFrame(op, sid, uid, loc) ==
  [StudentFrame(op, sid, uid) EXCEPT !.loc = loc, !.hasLoc = TRUE]

StatusInputs == {"ended", "cancelled", "active"}
OverrideInputs == validStatuses \cup {"present"}
Owner == "t1"
Enrolled == "s1"

createAttendanceSession(tids, radii) ==
  \E tid \in tids, cid \in Classes, radius \in radii :
    Call(CreateFrame("createAttendanceSession", tid, cid, radius))

postSession(tids, radii) ==
  \E tid \in tids, cid \in Classes, radius \in radii :
    Call(CreateFrame("postSession", tid, cid, radius))

startAttendanceSession(sids, tids) ==
  \E sid \in sids, tid \in tids : Call(SessionFrame("startAttendanceSession", sid, tid))

endAttendanceSession(sids, tids) ==
  \E sid \in sids, tid \in tids : Call(SessionFrame("endAttendanceSession", sid, tid))

putSession(sids, tids, statuses) ==
  \E sid \in sids, tid \in tids, status \in statuses :
    Call([SessionFrame("putSession", sid, tid) EXCEPT !.status = status])

checkInToSession(sids, uids, locs) ==
  \E sid \in sids, uid \in uids, loc \in locs :
    Call(LocatedFrame("checkInToSession", sid, uid, loc))

checkInStudent(sids, uids, locs) ==
  \E sid \in sids, uid \in uids, loc \in locs :
    Call(LocatedFrame("checkInStudent", sid, uid, loc))

checkOutFromSession(sids, uids) ==
  \E sid \in sids, uid \in uids : Call(StudentFrame("checkOutFromSession", sid, uid))

manuallyMarkAttendance(sids, uids, tids, statuses) ==
  \E sid \in sids, uid \in uids, tid \in tids, status \in statuses :
    Call([StudentFrame("manuallyMarkAttendance", sid, uid) EXCEPT !.tid = tid, !.status = status])

respondToVerificationRequest(sids, uids, locs) ==
  \E sid \in sids, uid \in uids :
    \/ Call(StudentFrame("respondToVerificationRequest", sid, uid))
    \/ \E loc \in locs : Call(LocatedFrame("respondToVerificationRequest", sid, uid, loc))

manuallyMarkAttendanceWith(sids, uids, tids, statuses, bags) ==
  \E sid \in sids, uid \in uids, tid \in tids, status \in statuses, bag \in bags :
    Call([StudentFrame("manuallyMarkAttendance", sid, uid) EXCEPT
            !.tid = tid, !.status = status, !.additionalData = bag])

requestStudentVerification(sids, uids) ==
  \E sid \in sids, uid \in uids : Call(StudentFrame("requestStudentVerification", sid, uid))

\* a geofence argument: location (with the type of its coordinates) and radius
Geofence(loc, locType, radius, radiusType) ==
  [loc |-> loc, locType |-> locType, radius |-> radius, radiusType |-> radiusType]

WithGeofence(f, g) ==
  [f EXCEPT !.loc = g.loc, !.hasLoc = g.locType # "undefined", !.locType = g.locType,
            !.radius = g.radius, !.radiusType = g.radiusType]

createAttendanceSessionAt(tids, geofences) ==
  \E tid \in tids, cid \in Classes, g \in geofences :
    Call(WithGeofence(CreateFrame("createAttendanceSession", tid, cid, 0), g))

postSessionAt(tids, geofences) ==
  \E tid \in tids, cid \in Classes, g \in geofences :
    Call(WithGeofence(CreateFrame("postSession", tid, cid, 0), g))

updateSessionLocation(sids, tids, geofences) ==
  \E sid \in sids, tid \in tids, g \in geofences :
    Call(WithGeofence(SessionFrame("updateSessionLocation", sid, tid), g))

removeStudentFromClass(cids, uids, tids) ==
  \E cid \in cids, uid \in uids, tid \in tids :
    Call([StudentFrame("removeStudentFromClass", 0, uid) EXCEPT !.cid = cid, !.tid = tid])

(***************************************************************************)
(* Session lifecycle, one call at a time.                                  *)
(***************************************************************************)
CreateAttendanceSession == createAttendanceSession(Teachers, RadiusInputs)
PostSession == postSession(Teachers, RadiusInputs)
StartAttendanceSession == startAttendanceSession(SessionRefs, Teachers)
EndAttendanceSession == endAttendanceSession(SessionRefs, Teachers)
PutSession == putSession(SessionRefs, Teachers, StatusInputs)

Next ==
  \/ CreateAttendanceSession
  \/ PostSession
  \/ StartAttendanceSession
  \/ EndAttendanceSession
  \/ PutSession

Spec == Init /\ [][Next]_vars

(***************************************************************************)
(* Session lifecycle on top of the sample data: createSessionsForClass     *)
(* stores sessions with status 'active' and an endTime one hour after      *)
(* their startTime.                                                        *)
(***************************************************************************)
\* sessionData of createSessionsForClass; its times are client dates
SampleSession(startTime) ==
  [NewSessionDoc("c1", classTeacher["c1"], Center, SampleRadius, startTime)
     EXCEPT !.endTime = startTime + 1]

InitSeeded ==
  /\ measurement = NoMeasurement
  /\ \E n \in 0..(MaxSessions - 1) :
       sessions = [s \in SessionIds |-> IF s <= n THEN SampleSession(s) ELSE NoDoc]
  /\ attendance = [k \in SessionIds \X Students |-> NoDoc]
  /\ verificationRequests = [k \in SessionIds \X Students |-> NoDoc]
  /\ classes = Classes
  /\ classStudents = {<<"c1", "s1">>}
  /\ userClasses = {<<"c1", "s1">>}
  /\ now = 1
  /\ calls = [p \in Procs |-> NoFrame]

SpecSeeded == InitSeeded /\ [][Next]_vars

(***************************************************************************)
(* Session lifecycle, interleaved: the client's create, start and end     *)
(* calls of up to MaxCalls callers, one awaited step at a time.            *)
(***************************************************************************)
RaceCreate(p) == Invoke(p, CreateFrame("createAttendanceSession", Owner, "c1", BoundaryRadius))
RaceStart(p) == \E sid \in SessionIds : Invoke(p, SessionFrame("startAttendanceSession", sid, Owner))
RaceEnd(p) == \E sid \in SessionIds : Invoke(p, SessionFrame("endAttendanceSession", sid, Owner))

NextRace == \E p \in Procs : RaceCreate(p) \/ RaceStart(p) \/ RaceEnd(p) \/ Advance(p)

SpecRace == Init /\ [][NextRace]_vars

(***************************************************************************)
(* Check-in, one call at a time: a teacher opens and ends sessions,        *)
(* students check in through the client library and through the server.   *)
(***************************************************************************)
OpenSession == postSession({Owner}, {SampleRadius, BoundaryRadius})
CloseSession == endAttendanceSession(SessionIds, {Owner})
CheckInToSession == checkInToSession(SessionRefs, Students, StudentLocations)
CheckInStudent == checkInStudent(SessionRefs, Students, StudentLocations)

NextCheckIn ==
  \/ OpenSession
  \/ CloseSession
  \/ CheckInToSession
  \/ CheckInStudent

SpecCheckIn == Init /\ [][NextCheckIn]_vars

(***************************************************************************)
(* Attendance records, one call at a time: check-in, check-out, manual     *)
(* override and the verification round trip on the sessions a teacher      *)
(* opens and ends.                                                         *)
(***************************************************************************)
FirstSession == {1}
CheckIn == checkInToSession(FirstSession, {Enrolled}, {Center, TwoSteps})
CheckOut == checkOutFromSession({0, 1}, {Enrolled})
ManualOverride == manuallyMarkAttendance(FirstSession, {Enrolled}, {Owner}, validStatuses)
RequestVerification == requestStudentVerification(FirstSession, {Enrolled})
RespondToVerification == respondToVerificationRequest(FirstSession, {Enrolled}, {Center})
OpenFirstSession == FreeIds(World) = SessionIds /\ postSession({Owner}, {BoundaryRadius})
CloseFirstSession == endAttendanceSession(FirstSession, {Owner})

NextAttendance ==
  \/ OpenFirstSession
  \/ CloseFirstSession
  \/ CheckIn
  \/ CheckInStudent
  \/ CheckOut
  \/ ManualOverride
  \/ RequestVerification
  \/ RespondToVerification

SpecAttendance == Init /\ [][NextAttendance]_vars

(***************************************************************************)
(* Manual override, one call at a time: any teacher marks any student with *)
(* any status on the session its owner opened; students check in, and the  *)
(* owner removes a student from the class once the session has ended.      *)
(***************************************************************************)
RemoveStudent == removeStudentFromClass(Classes, Students, {Owner})
OverrideByAnyone == manuallyMarkAttendance({0, 1}, Students, Teachers, OverrideInputs)

NextOverride ==
  \/ OpenFirstSession
  \/ CloseFirstSession
  \/ CheckIn
  \/ RemoveStudent
  \/ OverrideByAnyone

SpecOverride == Init /\ [][NextOverride]_vars

(***************************************************************************)
(* Geofences, one call at a time: sessions are created and their location  *)
(* updated with well-formed and ill-formed geofences, by the owner and by  *)
(* another teacher, while the owner starts, ends and cancels them.         *)
(***************************************************************************)
NegativeRadius == -1
WellFormedGeofences == {Geofence(Center, "number", BoundaryRadius, "number")}
IllFormedGeofences ==
  {Geofence(Center, "undefined", BoundaryRadius, "number"),
   Geofence(Center, "string", BoundaryRadius, "number"),
   Geofence(Center, "number", 0, "number"),
   Geofence(Center, "number", NegativeRadius, "number"),
   Geofence(Center, "number", 0, "undefined")}
\* a radius given as text, which only the client library is handed
TextRadiusGeofences == {Geofence(Center, "number", BoundaryRadius, "string")}
MovedGeofences ==
  {Geofence(OneStep, "number", SampleRadius, "number"),
   Geofence(OneStep, "number", NegativeRadius, "number"),
   Geofence(OneStep, "string", SampleRadius, "number")}

CreateAt ==
  createAttendanceSessionAt({Owner}, WellFormedGeofences \cup IllFormedGeofences \cup TextRadiusGeofences)
PostAt == postSessionAt({Owner}, WellFormedGeofences \cup IllFormedGeofences)
StartSession == startAttendanceSession(SessionRefs, Teachers)
EndSession == endAttendanceSession(SessionRefs, Teachers)
CancelSession == putSession(SessionIds, {Owner}, {"cancelled"})
UpdateSessionLocation == updateSessionLocation(SessionRefs, Teachers, MovedGeofences)

NextGeofence ==
  \/ CreateAt
  \/ PostAt
  \/ StartSession
  \/ EndSession
  \/ CancelSession
  \/ UpdateSessionLocation

SpecGeofence == Init /\ [][NextGeofence]_vars

(***************************************************************************)
(* The distance function on its own: pairs of nearby points around the     *)
(* equator and around 60 degrees north, measured in both directions.       *)
(***************************************************************************)
SixtyNorth == 60000
Offsets == (0 - MaxOffset)..MaxOffset
GridPoints ==
  {Point(lat + dlat, dlon) : lat \in {0, SixtyNorth}, dlat \in Offsets, dlon \in Offsets}
NearbyPairs ==
  {pair \in GridPoints \X GridPoints :
     Abs(pair[1].latitude - pair[2].latitude) <= 2 * MaxOffset}

InitDistance ==
  /\ \E pair \in NearbyPairs :
       measurement = [NoMeasurement EXCEPT !.point1 = pair[1], !.point2 = pair[2]]
  /\ sessions = [s \in SessionIds |-> NoDoc]
  /\ attendance = [k \in SessionIds \X Students |-> NoDoc]
  /\ verificationRequests = [k \in SessionIds \X Students |-> NoDoc]
  /\ classes = Classes
  /\ classStudents = {<<"c1", "s1">>}
  /\ userClasses = {<<"c1", "s1">>}
  /\ now = 1
  /\ calls = [p \in Procs |-> NoFrame]

CalculateDistance ==
  /\ ~measurement.done
  /\ measurement' =
       [measurement EXCEPT
          !.done = TRUE,
          !.there = calculateDistance(measurement.point1, measurement.point2),
          !.back = calculateDistance(measurement.point2, measurement.point1),
          !.self = calculateDistance(measurement.point1, measurement.point1)]
  /\ UNCHANGED <<classes, sessions, attendance, verificationRequests, classStudents,
                 userClasses, now, calls>>

NextDistance == CalculateDistance

SpecDistance == InitDistance /\ [][NextDistance]_vars

(***************************************************************************)
(* One session's lifecycle, interleaved: its owner opens it and may cancel *)
(* it through the server; start, end and location update calls of up to    *)
(* MaxCalls callers then run one awaited step at a time.                   *)
(***************************************************************************)
CancelFirstSession == putSession(FirstSession, {Owner}, {"cancelled"})
RaceStartFirst(p) == Invoke(p, SessionFrame("startAttendanceSession", 1, Owner))
RaceEndFirst(p) == Invoke(p, SessionFrame("endAttendanceSession", 1, Owner))
RaceMoveFirst(p) ==
  Invoke(p, WithGeofence(SessionFrame("updateSessionLocation", 1, Owner),
                         Geofence(OneStep, "number", SampleRadius, "number")))

NextLifecycleRace ==
  \/ OpenFirstSession
  \/ CancelFirstSession
  \/ \E p \in Procs : RaceStartFirst(p) \/ RaceEndFirst(p) \/ RaceMoveFirst(p) \/ Advance(p)

SpecLifecycleRace == Init /\ [][NextLifecycleRace]_vars

(***************************************************************************)
(* Check-in, interleaved: on the session its owner opened, the enrolled    *)
(* student's check-ins (client and server) and the owner's end call run    *)
(* one awaited step at a time.                                             *)
(***************************************************************************)
RaceCheckIn(p) ==
  \E loc \in {Center, TwoSteps} : Invoke(p, LocatedFrame("checkInToSession", 1, Enrolled, loc))
RaceCheckInStudent(p) ==
  \E loc \in {Center, TwoSteps} : Invoke(p, LocatedFrame("checkInStudent", 1, Enrolled, loc))

NextCheckInRace ==
  \/ OpenFirstSession
  \/ \E p \in Procs : RaceCheckIn(p) \/ RaceCheckInStudent(p) \/ RaceEndFirst(p) \/ Advance(p)

SpecCheckInRace == Init /\ [][NextCheckInRace]_vars

(***************************************************************************)
(* Every writer, one call at a time: the session calls (create, start,     *)
(* end, cancel, move) and the attendance calls on the first session.       *)
(***************************************************************************)
CreateFirstSession ==
  FreeIds(World) = SessionIds /\ createAttendanceSession({Owner}, {BoundaryRadius})
StartFirstSession == startAttendanceSession(FirstSession, {Owner})
MoveFirstSession ==
  updateSessionLocation(FirstSession, {Owner},
                        {Geofence(OneStep, "number", SampleRadius, "number")})

NextWriters ==
  \/ CreateFirstSession
  \/ OpenFirstSession
  \/ StartFirstSession
  \/ CloseFirstSession
  \/ CancelFirstSession
  \/ MoveFirstSession
  \/ CheckIn
  \/ CheckInStudent
  \/ CheckOut
  \/ ManualOverride
  \/ RequestVerification
  \/ RespondToVerification

SpecWriters == Init /\ [][NextWriters]_vars

(***************************************************************************)
(* Manual override with additional data, one call at a time, on students   *)
(* who have and have not checked in.                                       *)
(***************************************************************************)
AdditionalInputs ==
  {NoAdditional, [NoAdditional EXCEPT !["note"] = 1], [NoAdditional EXCEPT !["note"] = 2],
   [NoAdditional EXCEPT !["device"] = 1]}
ManualOverrideWith ==
  manuallyMarkAttendanceWith(FirstSession, {Enrolled}, {Owner}, validStatuses, AdditionalInputs)

NextManual ==
  \/ OpenFirstSession
  \/ CheckIn
  \/ CheckOut
  \/ ManualOverrideWith

SpecManual == Init /\ [][NextManual]_vars

(***************************************************************************)
(* Enrollment, interleaved: students join and leave, the teacher removes a *)
(* student and the class is deleted, one awaited step at a time, while the *)
(* teacher opens and ends a session.                                       *)
(***************************************************************************)
EnrollmentFrame(op, cid, uid) == [StudentFrame(op, 0, uid) EXCEPT !.cid = cid]

\* the student who is not enrolled at the start
Newcomer == "s2"

RaceJoin(p) == Invoke(p, EnrollmentFrame("joinClassWithCode", "c1", Newcomer))
RaceAdd(p) == Invoke(p, EnrollmentFrame("addStudentToClass", "c1", Newcomer))
RaceLeave(p) ==
  \E uid \in Students : Invoke(p, EnrollmentFrame("leaveClass", "c1", uid))
RaceRemove(p) ==
  Invoke(p, [EnrollmentFrame("removeStudentFromClass", "c1", Enrolled) EXCEPT !.tid = Owner])
RaceDeleteClass(p) == Invoke(p, EnrollmentFrame("deleteClass", "c1", "none"))

NextEnrollment ==
  \/ OpenFirstSession
  \/ CloseFirstSession
  \/ \E p \in Procs :
       \/ RaceJoin(p)
       \/ RaceAdd(p)
       \/ RaceLeave(p)
       \/ RaceRemove(p)
       \/ RaceDeleteClass(p)
       \/ Advance(p)

SpecEnrollment == Init /\ [][NextEnrollment]_vars

(***************************************************************************)
(* Properties.                                                             *)
(***************************************************************************)
Finished(f, ops) == f.pc = "done" /\ f.op \in ops /\ f.pre.exists

\* the session and the attendance record a finished call started from
PreSession(f) == IF f.sid \in SessionIds THEN f.pre.sessions[f.sid] ELSE NoDoc
PreAttendance(f) == IF f.sid \in SessionIds THEN f.pre.attendance[f.sid, f.uid] ELSE NoDoc

CreateOps == {"createAttendanceSession", "postSession"}
CheckInOps == {"checkInToSession", "checkInStudent"}
AlreadyCheckedInMessages == {"You have already checked in to this session", "Already checked in"}
NotEnrolledMessages == {"You are not enrolled in this class", "Student not enrolled in this class"}

\* C1: in every reachable state each class has at most one session with
\* status 'active', whatever the interleaving of create, start and end calls.
C1_SingleActivePerClass ==
  \A c \in Classes : Cardinality(ActiveSessionsOf(World, c)) <= 1

\* C2: a well-formed createSession by the class's teacher, made while a
\* session of the class is active and has no endTime, fails with 'There is
\* already an active session for this class' and stores no session.
C2_SecondCreateConflicts ==
  \A p \in Procs :
    LET f == calls[p]
    IN (/\ Finished(f, CreateOps)
        /\ f.radius # 0 /\ f.cid \in Classes /\ f.tid = classTeacher[f.cid]
        /\ \E s \in SessionIds :
             /\ f.pre.sessions[s].exists
             /\ f.pre.sessions[s].classId = f.cid
             /\ f.pre.sessions[s].status = "active"
             /\ f.pre.sessions[s].endTime = Null)
       => /\ f.res = "error"
          /\ f.msg = "There is already an active session for this class"
          /\ sessions = f.pre.sessions

\* C3: a check-in by an enrolled student into an active session for which a
\* record of that student already exists fails with 'already checked in' and
\* leaves the record as it was, whatever the record's status.
C3_NoDoubleCheckIn ==
  \A p \in Procs :
    LET f == calls[p]
    IN (/\ Finished(f, CheckInOps)
        /\ PreSession(f).exists /\ PreSession(f).status = "active"
        /\ ClassSideEnrolled(World, PreSession(f).classId, f.uid)
        /\ UserSideEnrolled(World, PreSession(f).classId, f.uid)
        /\ PreAttendance(f).exists)
       => /\ f.res = "error"
          /\ f.msg \in AlreadyCheckedInMessages
          /\ attendance[f.sid, f.uid] = PreAttendance(f)

\* C4: startAttendanceSession by the owning teacher on a session whose status
\* is 'ended' fails with 'Cannot restart an ended session' and leaves the
\* session, status and endTime included, unchanged.
C4_EndedIsTerminalForStart ==
  \A p \in Procs :
    LET f == calls[p]
    IN (/\ Finished(f, {"startAttendanceSession"})
        /\ PreSession(f).exists
        /\ PreSession(f).teacherId = f.tid
        /\ PreSession(f).status = "ended")
       => /\ f.res = "error"
          /\ f.msg = "Cannot restart an ended session"
          /\ sessions = f.pre.sessions
          /\ sessions[f.sid].status = "ended"
          /\ sessions[f.sid].endTime = PreSession(f).endTime

C4_Witness ==
  \E p \in Procs :
    /\ Finished(calls[p], {"startAttendanceSession"})
    /\ PreSession(calls[p]).exists
    /\ PreSession(calls[p]).teacherId = calls[p].tid
    /\ PreSession(calls[p]).status = "ended"
    /\ PreSession(calls[p]).endTime # Null
    /\ calls[p].msg = "Cannot restart an ended session"

AllowedTransitions ==
  {<<"scheduled", "active">>, <<"active", "ended">>,
   <<"scheduled", "cancelled">>, <<"active", "cancelled">>}

\* C5: every change of a session's status is one of scheduled->active,
\* active->ended, scheduled->cancelled, active->cancelled, so that 'ended'
\* and 'cancelled' are never left.
C5_TransitionRelation ==
  [][\A s \in SessionIds :
       (sessions[s].exists /\ sessions'[s].status # sessions[s].status)
         => <<sessions[s].status, sessions'[s].status>> \in AllowedTransitions]_vars

\* C6 as claimed: a check-out for a record whose checkOutTime is set returns
\* success and leaves the record unchanged.
C6_CheckOutAlwaysSucceeds ==
  \A p \in Procs :
    LET f == calls[p]
    IN (/\ Finished(f, {"checkOutFromSession"})
        /\ PreAttendance(f).exists
        /\ PreAttendance(f).checkOutTime # Null)
       => /\ f.res = "ok"
          /\ attendance[f.sid, f.uid] = PreAttendance(f)

\* C6: while the session is active, a check-out for a record whose
\* checkOutTime is set returns success and leaves the record, checkOutTime
\* included, unchanged; on a session that is no longer active it is refused
\* and the record is unchanged as well.
C6_CheckOutIdempotent ==
  \A p \in Procs :
    LET f == calls[p]
    IN (/\ Finished(f, {"checkOutFromSession"})
        /\ PreAttendance(f).exists
        /\ PreAttendance(f).checkOutTime # Null)
       => /\ attendance[f.sid, f.uid] = PreAttendance(f)
          /\ IF PreSession(f).status = "active"
               THEN f.res = "ok" /\ f.msg = "You have already checked out from this session"
               ELSE f.res = "error" /\ f.msg = "Cannot check out from an inactive session"

C6_Witness ==
  \E p \in Procs :
    /\ Finished(calls[p], {"checkOutFromSession"})
    /\ PreAttendance(calls[p]).exists
    /\ PreAttendance(calls[p]).checkOutTime # Null
    /\ PreSession(calls[p]).status = "active"
    /\ calls[p].res = "ok"
    /\ attendance[calls[p].sid, calls[p].uid].checkOutTime = PreAttendance(calls[p]).checkOutTime

\* C7: a successful check-in leaves exactly one new or rewritten record, the
\* one of (sessionId, studentId), whose status is 'verified' when the distance
\* from the session's location is at most the session's radius and
\* 'failed_location' otherwise, with isGpsVerified = (status = 'verified').
C7_CheckInOutcome ==
  \A p \in Procs :
    LET f == calls[p]
        s == PreSession(f)
        distance == calculateDistance(s.location, f.loc)
        a == attendance[f.sid, f.uid]
    IN (Finished(f, CheckInOps) /\ f.res = "ok")
       => /\ s.exists
          /\ a.exists
          /\ a.status = IF distance <= s.radius THEN "verified" ELSE "failed_location"
          /\ a.isGpsVerified = (a.status = "verified")
          /\ a.checkInLocation = f.loc
          /\ a.checkInTime # Null
          /\ f.op = "checkInToSession" => a.distance = distance
          /\ \A k \in SessionIds \X Students :
               k # <<f.sid, f.uid>> => attendance[k] = f.pre.attendance[k]

\* a check-in from exactly the fence's distance, recorded as verified
C7_Witness ==
  \E p \in Procs :
    /\ Finished(calls[p], CheckInOps)
    /\ calls[p].res = "ok"
    /\ calculateDistance(PreSession(calls[p]).location, calls[p].loc) = PreSession(calls[p]).radius
    /\ attendance[calls[p].sid, calls[p].uid].status = "verified"

\* C8: every attendance record has status 'verified' exactly when its
\* isGpsVerified is true.
C8_VerifiedIffGps ==
  \A k \in SessionIds \X Students :
    attendance[k].exists => (attendance[k].status = "verified" <=> attendance[k].isGpsVerified)

RecordFields == {"checkInTime", "checkOutTime", "distance", "isGpsVerified"}

\* C9: marking an enrolled student 'absent' by the session's teacher succeeds
\* whether or not a record exists; afterwards there is no record of the pair
\* and getSessionAttendance lists the student as absent, without check-in or
\* check-out time, distance or isGpsVerified.
C9_AbsentDeletes ==
  \A p \in Procs :
    LET f == calls[p]
    IN (/\ Finished(f, {"manuallyMarkAttendance"})
        /\ f.status = "absent"
        /\ PreSession(f).exists
        /\ PreSession(f).teacherId = f.tid
        /\ ClassSideEnrolled(World, PreSession(f).classId, f.uid))
       => /\ f.res = "ok"
          /\ ~attendance[f.sid, f.uid].exists
          /\ f.uid \in DOMAIN getSessionAttendance(World, f.sid)
          /\ getSessionAttendance(World, f.sid)[f.uid].status = "absent"
          /\ ~getSessionAttendance(World, f.sid)[f.uid].attended
          /\ RecordFields \cap DOMAIN getSessionAttendance(World, f.sid)[f.uid] = {}

\* a record that existed is gone after the student was marked absent
C9_Witness ==
  \E p \in Procs :
    /\ Finished(calls[p], {"manuallyMarkAttendance"})
    /\ calls[p].status = "absent"
    /\ calls[p].res = "ok"
    /\ PreAttendance(calls[p]).exists
    /\ ~attendance[calls[p].sid, calls[p].uid].exists

\* C10: a check-in into a missing session fails with 'Session not found', into
\* a session that is not active with 'Session is not active', by a student who
\* is not enrolled in the session's class with 'not enrolled'; none of these
\* creates or changes a record, and a check-in that succeeds started from an
\* existing, active session of a class the student is enrolled in.
C10_CheckInGuard ==
  \A p \in Procs :
    LET f == calls[p]
        s == PreSession(f)
    IN Finished(f, CheckInOps)
       => /\ ~s.exists
               => f.res = "error" /\ f.msg = "Session not found" /\ attendance = f.pre.attendance
          /\ (s.exists /\ s.status # "active")
               => f.res = "error" /\ f.msg = "Session is not active"
                  /\ attendance = f.pre.attendance
          /\ (/\ s.exists /\ s.status = "active"
              /\ ~ClassSideEnrolled(World, s.classId, f.uid)
              /\ ~UserSideEnrolled(World, s.classId, f.uid))
               => f.res = "error" /\ f.msg \in NotEnrolledMessages
                  /\ attendance = f.pre.attendance
          /\ attendance # f.pre.attendance
               => /\ f.res = "ok" /\ s.exists /\ s.status = "active"
                  /\ ClassSideEnrolled(World, s.classId, f.uid)
                  /\ UserSideEnrolled(World, s.classId, f.uid)

\* a check-in into an ended session, refused, with no record written
C10_Witness ==
  \E p \in Procs :
    /\ Finished(calls[p], CheckInOps)
    /\ PreSession(calls[p]).exists
    /\ PreSession(calls[p]).status = "ended"
    /\ calls[p].msg = "Session is not active"
    /\ ~attendance[calls[p].sid, calls[p].uid].exists

\* C11: a manual override that fails changes no attendance record; it fails
\* with "Invalid status" for a status outside validStatuses, with the
\* permission error for a teacher other than the session's, and with "Student
\* is not enrolled in this class" for a student without enrollment.
C11_FailedOverrideChangesNothing ==
  \A p \in Procs :
    LET f == calls[p]
        s == PreSession(f)
    IN Finished(f, {"manuallyMarkAttendance"})
       => /\ f.res = "error" => attendance = f.pre.attendance
          /\ f.status \notin validStatuses
               => f.res = "error" /\ f.msg = "Invalid status"
          /\ (f.status \in validStatuses /\ s.exists /\ s.teacherId # f.tid)
               => /\ f.res = "error"
                  /\ f.msg = "You do not have permission to update attendance for this session"
          /\ (/\ f.status \in validStatuses /\ s.exists /\ s.teacherId = f.tid
              /\ ~ClassSideEnrolled(World, s.classId, f.uid))
               => f.res = "error" /\ f.msg = "Student is not enrolled in this class"

\* another teacher's override of a student's existing record, refused
C11_Witness ==
  \E p \in Procs :
    /\ Finished(calls[p], {"manuallyMarkAttendance"})
    /\ calls[p].status \in validStatuses
    /\ PreSession(calls[p]).exists
    /\ PreSession(calls[p]).teacherId # calls[p].tid
    /\ PreAttendance(calls[p]).exists
    /\ calls[p].res = "error"
    /\ attendance[calls[p].sid, calls[p].uid] = PreAttendance(calls[p])

\* C12: once a createAttendanceSession call that reached its query of the
\* class's active sessions has returned, with success or with "There is
\* already an active session for this class", every session of the class that
\* had status 'active' together with an endTime when the call began has
\* status 'ended'.
C12_StaleActiveReconciled ==
  \A p \in Procs :
    LET f == calls[p]
    IN (/\ Finished(f, {"createAttendanceSession"})
        /\ f.cid \in Classes /\ f.radius # 0 /\ f.tid = classTeacher[f.cid])
       => \A s \in SessionIds :
            (/\ f.pre.sessions[s].exists
             /\ f.pre.sessions[s].classId = f.cid
             /\ f.pre.sessions[s].status = "active"
             /\ f.pre.sessions[s].endTime # Null)
            => sessions[s].status = "ended"

\* C13: endAttendanceSession by the owning teacher on a session that is
\* already 'ended' returns success and leaves the session, endTime included,
\* as the first end left it; startAttendanceSession by the owning teacher on
\* a session that is already 'active' returns success and leaves the session,
\* startTime and endTime included, unchanged.
C13_RedundantCallsAreNoOps ==
  \A p \in Procs :
    LET f == calls[p]
        s == PreSession(f)
    IN /\ (/\ Finished(f, {"endAttendanceSession"})
           /\ s.exists /\ s.teacherId = f.tid /\ s.status = "ended")
          => /\ f.res = "ok"
             /\ sessions = f.pre.sessions
             /\ sessions[f.sid].endTime = s.endTime
       /\ (/\ Finished(f, {"startAttendanceSession"})
           /\ s.exists /\ s.teacherId = f.tid /\ s.status = "active")
          => /\ f.res = "ok"
             /\ sessions = f.pre.sessions
             /\ sessions[f.sid].startTime = s.startTime
             /\ sessions[f.sid].endTime = s.endTime

\* a second end of an ended session, answered with success
C13_Witness ==
  \E p \in Procs :
    /\ Finished(calls[p], {"endAttendanceSession"})
    /\ PreSession(calls[p]).exists
    /\ PreSession(calls[p]).status = "ended"
    /\ PreSession(calls[p]).endTime # Null
    /\ calls[p].res = "ok"
    /\ sessions[calls[p].sid].endTime = PreSession(calls[p]).endTime

LifecycleOps == {"startAttendanceSession", "endAttendanceSession", "updateSessionLocation"}
PermissionMessages ==
  {"You do not have permission to start this session",
   "You do not have permission to end this session",
   "You do not have permission to update this session"}

\* the geofence arguments of an updateSessionLocation call are well-formed
WellFormedUpdate(f) ==
  f.op = "updateSessionLocation" => ~LocationRejected(f) /\ ~UpdateRadiusRejected(f)

\* C14: startAttendanceSession, endAttendanceSession and updateSessionLocation
\* fail with "Session not found" on a session that does not exist and with
\* their permission error for a teacher other than the session's; a failed
\* call leaves every session document as it was and creates none.
C14_LifecycleOwnership ==
  \A p \in Procs :
    LET f == calls[p]
        s == PreSession(f)
    IN Finished(f, LifecycleOps)
       => /\ f.res = "error" => sessions = f.pre.sessions
          /\ ~s.exists => f.res = "error"
          /\ (~s.exists /\ WellFormedUpdate(f)) => f.msg = "Session not found"
          /\ (s.exists /\ s.teacherId # f.tid) => f.res = "error"
          /\ (s.exists /\ s.teacherId # f.tid /\ WellFormedUpdate(f))
               => f.msg \in PermissionMessages

\* another teacher's well-formed location update of an active session, refused
C14_Witness ==
  \E p \in Procs :
    /\ Finished(calls[p], {"updateSessionLocation"})
    /\ WellFormedUpdate(calls[p])
    /\ PreSession(calls[p]).exists
    /\ PreSession(calls[p]).status = "active"
    /\ PreSession(calls[p]).teacherId # calls[p].tid
    /\ calls[p].msg = "You do not have permission to update this session"
    /\ sessions = calls[p].pre.sessions

\* C15: updateSessionLocation on a session whose status is not 'active' fails,
\* for the owner's well-formed call with "Cannot update location for an
\* inactive session", and leaves location and radius unchanged; a call that
\* succeeds started from an active session and stored its location and
\* radius; no call changes the location or radius of any other session or of
\* a session that is not active.
C15_LocationOnlyWhileActive ==
  \A p \in Procs :
    LET f == calls[p]
        s == PreSession(f)
    IN /\ Finished(f, {"updateSessionLocation"})
          => /\ (s.exists /\ s.status # "active")
                  => /\ f.res = "error"
                     /\ sessions[f.sid].location = s.location
                     /\ sessions[f.sid].radius = s.radius
             /\ (s.exists /\ s.status # "active" /\ s.teacherId = f.tid /\ WellFormedUpdate(f))
                  => f.msg = "Cannot update location for an inactive session"
             /\ f.res = "ok"
                  => /\ s.exists /\ s.status = "active"
                     /\ sessions[f.sid].location = f.loc
                     /\ sessions[f.sid].radius = f.radius
       /\ (f.pc = "done" /\ f.pre.exists)
          => \A k \in SessionIds :
               (/\ f.pre.sessions[k].exists
                /\ \/ sessions[k].location # f.pre.sessions[k].location
                   \/ sessions[k].radius # f.pre.sessions[k].radius)
               => /\ f.op = "updateSessionLocation" /\ k = f.sid
                  /\ f.pre.sessions[k].status = "active"

\* the owner's well-formed location update of an ended session, refused
C15_Witness ==
  \E p \in Procs :
    /\ Finished(calls[p], {"updateSessionLocation"})
    /\ WellFormedUpdate(calls[p])
    /\ PreSession(calls[p]).exists
    /\ PreSession(calls[p]).status = "ended"
    /\ PreSession(calls[p]).teacherId = calls[p].tid
    /\ calls[p].msg = "Cannot update location for an inactive session"
    /\ sessions[calls[p].sid].location = PreSession(calls[p]).location

\* C16: a session creation whose location is missing or has coordinates that
\* are not numbers, or whose radius is not a number greater than 0, fails and
\* stores no session; every stored session has a radius greater than 0.
C16_GeofenceValidated ==
  /\ \A s \in SessionIds : sessions[s].exists => sessions[s].radius > 0
  /\ \A p \in Procs :
       LET f == calls[p]
       IN (/\ Finished(f, CreateOps)
           /\ \/ f.locType # "number"
              \/ f.radiusType # "number"
              \/ f.radius <= 0)
          => f.res = "error" /\ sessions = f.pre.sessions

RecordCreatingOps == CheckInOps \cup {"manuallyMarkAttendance"}

\* C17: checkOutFromSession fails with "Cannot check out from an inactive
\* session" when the session is not active and with "No attendance record
\* found" when the student has no record, leaving all attendance records as
\* they were; it never creates a record, and a record that appears was
\* written by a check-in or by a manual override.
C17_CheckOutNeverCreates ==
  \A p \in Procs :
    LET f == calls[p]
        s == PreSession(f)
    IN /\ Finished(f, {"checkOutFromSession"})
          => /\ (s.exists /\ s.status # "active")
                  => /\ f.res = "error"
                     /\ f.msg = "Cannot check out from an inactive session"
                     /\ attendance = f.pre.attendance
             /\ (s.exists /\ s.status = "active" /\ ~PreAttendance(f).exists)
                  => /\ f.res = "error"
                     /\ f.msg = "No attendance record found. You must check in before you can check out."
                     /\ attendance = f.pre.attendance
             /\ f.res = "error" => attendance = f.pre.attendance
       /\ (f.pc = "done" /\ f.pre.exists)
          => \A k \in SessionIds \X Students :
               (attendance[k].exists /\ ~f.pre.attendance[k].exists)
                 => f.op \in RecordCreatingOps /\ k = <<f.sid, f.uid>>

\* a check-out from an active session by a student without a record, refused
C17_Witness ==
  \E p \in Procs :
    /\ Finished(calls[p], {"checkOutFromSession"})
    /\ PreSession(calls[p]).exists
    /\ PreSession(calls[p]).status = "active"
    /\ ~PreAttendance(calls[p]).exists
    /\ calls[p].res = "error"
    /\ ~attendance[calls[p].sid, calls[p].uid].exists

\* C18: a first successful check-out of a record whose status is 'verified'
\* or 'failed_location' sets checkOutTime and leaves status and isGpsVerified
\* (and the check-in fields) as they were.
C18_CheckOutKeepsStatus ==
  \A p \in Procs :
    LET f == calls[p]
        before == PreAttendance(f)
        after == attendance[f.sid, f.uid]
    IN (/\ Finished(f, {"checkOutFromSession"})
        /\ f.res = "ok"
        /\ before.exists
        /\ before.checkOutTime = Null
        /\ before.status \in {"verified", "failed_location"})
       => /\ after.exists
          /\ after.checkOutTime # Null
          /\ after.status = before.status
          /\ after.isGpsVerified = before.isGpsVerified
          /\ after.checkInTime = before.checkInTime
          /\ after.distance = before.distance

\* a verified student's first check-out
C18_Witness ==
  \E p \in Procs :
    /\ Finished(calls[p], {"checkOutFromSession"})
    /\ calls[p].res = "ok"
    /\ PreAttendance(calls[p]).exists
    /\ PreAttendance(calls[p]).checkOutTime = Null
    /\ PreAttendance(calls[p]).status = "verified"
    /\ attendance[calls[p].sid, calls[p].uid].checkOutTime # Null
    /\ attendance[calls[p].sid, calls[p].uid].status = "verified"

\* the verification request a finished call started from
PreRequest(f) ==
  IF f.sid \in SessionIds THEN f.pre.verificationRequests[f.sid, f.uid] ELSE NoDoc

\* C19: respondToVerificationRequest succeeds only on a request that exists
\* with status 'pending', and leaves it 'completed'; a response to a request
\* that is missing or already 'completed' fails and changes neither the
\* request nor the attendance record.
C19_RequestAnsweredOnce ==
  \A p \in Procs :
    LET f == calls[p]
        r == PreRequest(f)
    IN Finished(f, {"respondToVerificationRequest"})
       => /\ f.res = "ok"
               => /\ r.exists /\ r.status = "pending"
                  /\ verificationRequests[f.sid, f.uid].status = "completed"
          /\ (~r.exists \/ r.status # "pending")
               => /\ f.res = "error"
                  /\ verificationRequests = f.pre.verificationRequests
                  /\ attendance = f.pre.attendance

\* a second response to a request already completed, on an active session
\* and an existing record, refused
C19_Witness ==
  \E p \in Procs :
    /\ Finished(calls[p], {"respondToVerificationRequest"})
    /\ PreSession(calls[p]).exists
    /\ PreSession(calls[p]).status = "active"
    /\ PreAttendance(calls[p]).exists
    /\ PreRequest(calls[p]).exists
    /\ PreRequest(calls[p]).status = "completed"
    /\ calls[p].res = "error"
    /\ calls[p].msg = "Verification request is not pending"
    /\ attendance = calls[p].pre.attendance

\* C20: the distance from A to B equals the distance from B to A, and the
\* distance from a point to itself is 0.
C20_DistanceSymmetric ==
  measurement.done
    => /\ measurement.there = measurement.back
       /\ measurement.self = 0

\* two different points at 60 degrees north, at the same positive distance
\* in both directions
C20_Witness ==
  /\ measurement.done
  /\ measurement.point1.latitude >= SixtyNorth
  /\ measurement.point1.latitude # measurement.point2.latitude
  /\ measurement.point1.longitude # measurement.point2.longitude
  /\ measurement.there > 0
  /\ measurement.there = measurement.back

\* C21: once a session's stored status is 'ended', no later write makes it
\* 'active' again or clears its endTime.
C21_EndedNeverResurrected ==
  [][\A s \in SessionIds :
       (sessions[s].exists /\ sessions[s].status = "ended")
         => sessions'[s].status # "active" /\ sessions'[s].endTime # Null]_vars

\* a check-in call that has returned success
CheckedIn(f) == f.op \in CheckInOps /\ f.pc = "done" /\ f.res = "ok"

\* C22: of two check-in calls for the same session and student at most one
\* returns success.
C22_NoDuplicateCheckIn ==
  \A p, q \in Procs :
    (p # q /\ CheckedIn(calls[p]) /\ CheckedIn(calls[q]))
      => <<calls[p].sid, calls[p].uid>> # <<calls[q].sid, calls[q].uid>>

\* C23: a check-in returns success only if the status it read from the
\* session was 'active'; nothing tests the status again when the record is
\* written, so the record may be written after the session has ended.
C23_CheckInReadActive ==
  \A p \in Procs :
    CheckedIn(calls[p])
      => /\ calls[p].sess.exists
         /\ calls[p].sess.status = "active"
         /\ attendance[calls[p].sid, calls[p].uid].exists

\* a check-in that read 'active', succeeded, and whose record was written
\* after the end call committed 'ended'
C23_Witness ==
  \E p \in Procs :
    /\ CheckedIn(calls[p])
    /\ calls[p].op = "checkInToSession"
    /\ calls[p].sess.status = "active"
    /\ sessions[calls[p].sid].status = "ended"
    /\ attendance[calls[p].sid, calls[p].uid].exists
    /\ attendance[calls[p].sid, calls[p].uid].checkInTime > sessions[calls[p].sid].endTime

\* C24: whenever a verification request is 'completed', the attendance record
\* of the same session and student exists and carries the response timestamp.
C24_CompletedRequestHasRecord ==
  \A k \in SessionIds \X Students :
    (verificationRequests[k].exists /\ verificationRequests[k].status = "completed")
      => attendance[k].exists /\ attendance[k].verificationResponseTime # Null

SessionWriters ==
  {"createAttendanceSession", "postSession", "startAttendanceSession",
   "endAttendanceSession", "putSession", "updateSessionLocation"}
AttendanceWriters ==
  {"checkInToSession", "checkInStudent", "checkOutFromSession",
   "manuallyMarkAttendance", "respondToVerificationRequest"}

C26_StatusAgreesWithEndTime ==
  \A s \in SessionIds :
    sessions[s].exists
      => /\ sessions[s].status = "active" => sessions[s].endTime = Null
         /\ sessions[s].status = "ended" => sessions[s].endTime # Null

\* an end call has written 'ended' on one session while another is 'active'
C26_Witness ==
  /\ \E p \in Procs : /\ calls[p].op = "endAttendanceSession"
                       /\ calls[p].pc = "done"
                       /\ calls[p].msg = "Session ended successfully"
  /\ \E s, t \in SessionIds :
        /\ sessions[s].exists /\ sessions[s].status = "ended" /\ sessions[s].endTime # Null
        /\ sessions[t].exists /\ sessions[t].status = "active" /\ sessions[t].endTime = Null

\* C27: after a successful override with a status other than 'absent' the
\* record has the new status, manuallyUpdated = true and manuallyUpdatedBy =
\* the teacher, and every key of the stored 'additional' bag that the call
\* did not supply keeps its value.
C27_OverrideStampsRecord ==
  \A p \in Procs :
    (/\ Finished(calls[p], {"manuallyMarkAttendance"})
     /\ calls[p].res = "ok"
     /\ calls[p].status # "absent")
      => LET f == calls[p]
             a == attendance[f.sid, f.uid]
         IN /\ a.exists
            /\ a.status = f.status
            /\ a.manuallyUpdated
            /\ a.manuallyUpdatedBy = f.tid
            /\ PreAttendance(f).exists
                 => \A k \in AdditionalKeys :
                      f.additionalData[k] = Null
                        => a.additional[k] = PreAttendance(f).additional[k]

\* a PUT that got as far as updateSessionStatus
ReachedUpdateSessionStatus(f) ==
  /\ Finished(f, {"putSession"})
  /\ PreSession(f).exists
  /\ PreSession(f).teacherId = f.tid
  /\ f.status # "none"

\* C28: updateSessionStatus succeeds exactly when the current status is
\* 'active' and the requested one is 'ended' or 'cancelled', and then writes
\* the status and an endTime together; any other pair, a repeated 'ended'
\* included, fails with 'Invalid status transition' (HTTP 400) and leaves the
\* sessions as they were.
C28_UpdateSessionStatus ==
  \A p \in Procs :
    ReachedUpdateSessionStatus(calls[p])
      => LET f == calls[p]
         IN IF PreSession(f).status = "active" /\ f.status \in {"ended", "cancelled"}
              THEN /\ f.res = "ok"
                   /\ sessions[f.sid].status = f.status
                   /\ sessions[f.sid].endTime # Null
                   /\ \A s \in SessionIds \ {f.sid} : sessions[s] = f.pre.sessions[s]
              ELSE /\ f.res = "error"
                   /\ f.msg = "Invalid status transition"
                   /\ ErrorResponseStatus(f.msg) = 400
                   /\ sessions = f.pre.sessions

\* a repeated 'ended' on a session that is already 'ended' was refused
C28_Witness ==
  \E p \in Procs :
    /\ ReachedUpdateSessionStatus(calls[p])
    /\ calls[p].status = "ended"
    /\ PreSession(calls[p]).status = "ended"
    /\ calls[p].res = "error"
    /\ sessions = calls[p].pre.sessions

\* C29: the class-side pointer of a student exists exactly when the user-side
\* pointer does, so that the enrollment test of the check-in and the one of
\* the manual override agree.
C29_PointersPaired ==
  \A cid \in Classes, uid \in Students :
    ClassSideEnrolled(World, cid, uid) <=> UserSideEnrolled(World, cid, uid)

\* one caller has left the class and another has joined it
C29_Witness ==
  \E p, q \in Procs :
    /\ calls[p].op \in {"leaveClass", "removeStudentFromClass"}
    /\ calls[p].pc = "done" /\ calls[p].res = "ok"
    /\ ~ClassSideEnrolled(World, calls[p].cid, calls[p].uid)
    /\ calls[q].op \in {"joinClassWithCode", "addStudentToClass"}
    /\ calls[q].pc = "done" /\ calls[q].res = "ok"
    /\ UserSideEnrolled(World, calls[q].cid, calls[q].uid)

ReachableStatuses == {"verified", "failed_location", "checked_out_early_before_verification"}

\* C30: every stored attendance record has status 'verified',
\* 'failed_location' or 'checked_out_early_before_verification'; a check-out
\* therefore leaves the status of the record as it was, and a record has the
\* early status only when a manual override wrote it.
C30_ReachableStatuses ==
  /\ \A k \in SessionIds \X Students :
       attendance[k].exists
         => /\ attendance[k].status \in ReachableStatuses
            /\ attendance[k].status = "checked_out_early_before_verification"
                 => attendance[k].manuallyUpdated \/ attendance[k].manuallyCreated
  /\ \A p \in Procs :
       (Finished(calls[p], {"checkOutFromSession"}) /\ PreAttendance(calls[p]).exists)
         => /\ attendance[calls[p].sid, calls[p].uid].exists
            /\ attendance[calls[p].sid, calls[p].uid].status = PreAttendance(calls[p]).status

\* a student marked as having left early by the teacher has checked out
C30_Witness ==
  \E p \in Procs :
    /\ Finished(calls[p], {"checkOutFromSession"})
    /\ calls[p].res = "ok"
    /\ PreAttendance(calls[p]).exists
    /\ PreAttendance(calls[p]).checkOutTime = Null
    /\ attendance[calls[p].sid, calls[p].uid].checkOutTime # Null
    /\ attendance[calls[p].sid, calls[p].uid].status = "checked_out_early_before_verification"

====
